---- MODULE Spec2Model ----
(***************************************************************************)
(* A model of the tracing pipeline of the ray tracer: Vector3<float>       *)
(* algebra (vector3.hpp), Sphere::intersect and the recursive trace        *)
(* function (main.cc).                                                     *)
(*                                                                         *)
(* A float is modelled by an exact rational <<n, d>> in lowest terms with  *)
(* d > 0.  The scenes and rays the model draws its inputs from are chosen  *)
(* so that every square root the program takes on them is the root of a    *)
(* perfect square (SqrtArgsExact checks it), so on these inputs the        *)
(* rational value is the value of the real-number computation the code     *)
(* performs.  A recursive trace call is a frame on `stack`.                *)
(***************************************************************************)
EXTENDS Integers, Sequences, FiniteSets, TLC

\* Largest depth budget handed to trace, and largest number of objects in a scene.
MaxDepth == 2
MaxObjs == 2

----------------------------------------------------------------------------
(* float *)

Abs(n) == IF n < 0 THEN -n ELSE n

RECURSIVE Gcd(_, _)
Gcd(a, b) == IF b = 0 THEN a ELSE Gcd(b, a % b)

\* The float n/d (d > 0), in lowest terms.
Float(n, d) == LET g == Gcd(Abs(n), d) IN <<n \div g, d \div g>>

Lit(n) == <<n, 1>>

\* numeric_limits<float>::infinity()
infinity == <<1, 0>>

FAdd(a, b) ==
    LET g == Gcd(a[2], b[2])
    IN  Float(a[1] * (b[2] \div g) + b[1] * (a[2] \div g), (a[2] \div g) * b[2])

FNeg(a) == <<-a[1], a[2]>>

FSub(a, b) == FAdd(a, FNeg(b))

FMul(a, b) ==
    LET g1 == Gcd(Abs(a[1]), b[2])
        g2 == Gcd(Abs(b[1]), a[2])
    IN  IF a[1] = 0 \/ b[1] = 0 THEN <<0, 1>>
        ELSE <<(a[1] \div g1) * (b[1] \div g2), (a[2] \div g2) * (b[2] \div g1)>>

\* a / b; a division by zero gives an infinity, 0 / 0 gives the NaN <<0, 0>>.
FDiv(a, b) ==
    IF b[1] = 0
    THEN <<IF a[1] > 0 THEN 1 ELSE IF a[1] < 0 THEN -1 ELSE 0, 0>>
    ELSE IF b[1] > 0 THEN FMul(a, <<b[2], b[1]>>)
         ELSE FMul(a, <<-b[2], -b[1]>>)

FLt(a, b) ==
    LET g == Gcd(a[2], b[2])
    IN  a[1] * (b[2] \div g) < b[1] * (a[2] \div g)

FLe(a, b) ==
    LET g == Gcd(a[2], b[2])
    IN  a[1] * (b[2] \div g) <= b[1] * (a[2] \div g)

RECURSIVE Root(_, _, _)
Root(n, lo, hi) ==
    IF lo >= hi THEN lo
    ELSE LET mid == (lo + hi + 1) \div 2
         IN  IF mid * mid <= n THEN Root(n, mid, hi) ELSE Root(n, lo, mid - 1)

\* The integer part of the square root of n >= 0.
ISqrt(n) == Root(n, 0, IF n < 46340 THEN n ELSE 46340)

IsSquare(a) == a[1] >= 0 /\ ISqrt(a[1]) * ISqrt(a[1]) = a[1]
                         /\ ISqrt(a[2]) * ISqrt(a[2]) = a[2]

\* std::sqrt: exact on the square of a rational.
FSqrt(a) == Float(ISqrt(a[1]), ISqrt(a[2]))

----------------------------------------------------------------------------
(* Vector3<float> *)

Vector3(x, y, z) == <<x, y, z>>

\* explicit Vector3(const T &scalar)
Vector3s(scalar) == <<scalar, scalar, scalar>>

\* operator+(VectorType)
Plus(a, b) == <<FAdd(a[1], b[1]), FAdd(a[2], b[2]), FAdd(a[3], b[3])>>

\* operator-(VectorType)
Minus(a, b) == <<FSub(a[1], b[1]), FSub(a[2], b[2]), FSub(a[3], b[3])>>

\* operator*(VectorType), componentwise
Times(a, b) == <<FMul(a[1], b[1]), FMul(a[2], b[2]), FMul(a[3], b[3])>>

\* operator*(ScalarType)
Scale(a, scalar) == <<FMul(a[1], scalar), FMul(a[2], scalar), FMul(a[3], scalar)>>

\* operator/(ScalarType)
DivScalar(a, scalar) == <<FDiv(a[1], scalar), FDiv(a[2], scalar), FDiv(a[3], scalar)>>

\* unary operator-
Negate(vec) == <<FNeg(vec[1]), FNeg(vec[2]), FNeg(vec[3])>>

dot(a, b) == FAdd(FAdd(FMul(a[1], b[1]), FMul(a[2], b[2])), FMul(a[3], b[3]))

sqr_length(v) == dot(v, v)

length(v) == FSqrt(sqr_length(v))

normalized(v) == DivScalar(v, length(v))

sqr_distance(a, b) == sqr_length(Minus(a, b))

distance(a, b) == FSqrt(sqr_distance(a, b))

----------------------------------------------------------------------------
(* Ray, Hit, Object, Sphere, Scene *)

\* A null unique_ptr<Hit>; a non-null one is the one-element sequence <<hit>>.
nullptr == <<>>

Ray(org, dir) == [org |-> org, dir |-> dir]

Point(x, y, z) == Vector3(Lit(x), Lit(y), Lit(z))

Sphere(pos, radius, surface_color, emission_color) ==
    [pos |-> pos, radius |-> radius,
     surface_color |-> surface_color, emission_color |-> emission_color]

\* Behind with the boundary l_cos = 0 let through.
Behind_Strict(l_cos) == FLt(l_cos, Lit(0))

\* l_cos <= 0: the centre is behind or at the origin along the ray.
Behind(l_cos) == FLe(l_cos, Lit(0))

\* Outside with the tangent ray rejected too.
Outside_OrOn(l_sin_sqr, radius) == FLe(FMul(radius, radius), l_sin_sqr)

\* l_sin_sqr > radius * radius: the ray's line passes outside the sphere.
Outside(l_sin_sqr, radius) == FLt(FMul(radius, radius), l_sin_sqr)

\* auto l = pos - ray.org; float l_cos = l.dot(ray.dir);
l_cos(obj, ray) == dot(Minus(obj.pos, ray.org), ray.dir)

\* float l_sin_sqr = l.sqr_length() - l_cos * l_cos;
l_sin_sqr(obj, ray) ==
    FSub(sqr_length(Minus(obj.pos, ray.org)), FMul(l_cos(obj, ray), l_cos(obj, ray)))

\* hit_distance with the far root taken.
hit_distance_far(obj, ray) ==
    FAdd(dot(Minus(obj.pos, ray.org), ray.dir),
         FSqrt(FSub(FMul(obj.radius, obj.radius),
                    FSub(sqr_length(Minus(obj.pos, ray.org)),
                         FMul(dot(Minus(obj.pos, ray.org), ray.dir),
                              dot(Minus(obj.pos, ray.org), ray.dir))))))

\* float distance = l_cos - sqrt(radius * radius - l_sin_sqr);
hit_distance(obj, ray) ==
    FSub(l_cos(obj, ray),
         FSqrt(FSub(FMul(obj.radius, obj.radius), l_sin_sqr(obj, ray))))

\* Sphere::intersect; `this` is the object's place in scene.objs.
intersect(obj, this, ray) ==
    LET pos == Plus(ray.org, Scale(ray.dir, hit_distance(obj, ray)))
    IN  IF Behind(l_cos(obj, ray)) THEN nullptr
        ELSE IF Outside(l_sin_sqr(obj, ray), obj.radius) THEN nullptr
        ELSE <<[pos |-> pos, norm |-> normalized(Minus(pos, obj.pos)), obj |-> this]>>

----------------------------------------------------------------------------
(* trace *)

\* Nearer with a tie replacing the current best.
Nearer_OrEqual(dist, min_distance) == FLe(dist, min_distance)

\* distance < min_distance
Nearer(dist, min_distance) == FLt(dist, min_distance)

\* Oriented with the comparison turned round.
Oriented_WrongSign(ray, norm) ==
    IF FLt(dot(ray.dir, norm), Lit(0)) THEN Negate(norm) ELSE norm

\* if (ray.dir.dot(first_hit->norm) > 0) first_hit->norm = -first_hit->norm;
Oriented(ray, norm) ==
    IF FLt(Lit(0), dot(ray.dir, norm)) THEN Negate(norm) ELSE norm

\* Recurses with the exhausted budget still recursing.
Recurses_AtZero(depth) == depth >= 0

\* if (max_depth > 0)
Recurses(depth) == depth > 0

\* the budget of the recursive call
NextDepth(depth) == depth - 1

\* reflect_ray with the sign of the correction wrong.
reflect_ray_plus(ray, hit) ==
    Ray(hit.pos,
        Plus(ray.dir, Scale(Scale(hit.norm, Lit(2)), dot(ray.dir, hit.norm))))

\* Ray reflect_ray = {first_hit->pos, ray.dir - first_hit->norm * 2 * ray.dir.dot(first_hit->norm)};
reflect_ray(ray, hit) ==
    Ray(hit.pos,
        Minus(ray.dir, Scale(Scale(hit.norm, Lit(2)), dot(ray.dir, hit.norm))))

\* Shade without the multiplication by the object's surface colour.
Shade_NoAlbedo(reflection, obj) ==
    Plus(reflection, Vector3s(Float(3, 10)))

\* surface_color = reflection * first_hit->obj->surface_color + Vector3f(0.3);
Shade(reflection, obj) ==
    Plus(Times(reflection, obj.surface_color), Vector3s(Float(3, 10)))

\* `Color surface_color;` runs Vector3() {}, which sets no component: the
\* value read before an assignment is whatever the stack holds.
Uninitialized ==
    { Vector3s(Lit(0)), Vector3(Float(1, 2), Lit(-3), Lit(42)) }

----------------------------------------------------------------------------
(* The scenes and rays of the model *)

\* Unit-direction rays and the spheres they meet.
World1 ==
    [objs |->
       { Sphere(Point(0, 0, -20), Lit(4),
                Vector3(Lit(1), Float(8, 25), Float(9, 25)), Vector3s(Lit(0))),
         Sphere(Point(3, 0, -10), Lit(5), Vector3s(Lit(0)), Vector3s(Lit(0))),
         Sphere(Point(0, 4, -8), Lit(4), Vector3s(Float(1, 2)), Vector3s(Lit(0))),
         Sphere(Point(0, 0, -21), Lit(5), Vector3s(Lit(1)), Vector3s(Lit(0))),
         Sphere(Point(0, 0, 10), Lit(3), Vector3s(Lit(0)), Vector3s(Lit(3))),
         Sphere(Point(0, 0, -20), Lit(-4), Vector3s(Lit(1)), Point(1, 0, 0)),
         Sphere(Point(-24, 0, 1), Lit(5), Vector3s(Lit(1)), Vector3s(Lit(0))) },
     rays |->
       { Ray(org, dir) :
           org \in { Point(0, 0, 0), Point(0, 0, -18), Point(0, 0, -20) },
           dir \in { Point(0, 0, -1), Point(0, 0, 1), Point(1, 0, 0) } }]

\* A ray whose direction is not of unit length.
World2 ==
    [objs |->
       { Sphere(Point(-4, 4, -4), Lit(3), Vector3s(Lit(1)), Vector3s(Lit(0))),
         Sphere(Point(4, -4, -4), Lit(3), Vector3s(Float(1, 2)), Vector3s(Lit(0))),
         Sphere(Point(0, 0, -4), Lit(1), Vector3s(Lit(1)), Vector3s(Lit(0))) },
     rays |-> { Ray(Point(0, 0, 0), Point(0, 0, -2)) }]

Worlds == { World1, World2 }

SeqsUpTo(S, n) == UNION { [1..k -> S] : k \in 0..n }

----------------------------------------------------------------------------
VARIABLES
    scene,        \* Scene: [objs |-> sequence of Sphere]
    primary_ray,  \* the ray the outermost trace is called with
    max_depth,    \* the depth budget the outermost trace is called with
    pc,           \* "start", "running", "done"
    stack,        \* the activations of trace, innermost last
    retval,       \* the Color the last finished activation returned, or nullptr
    pixel         \* the Color handed back to the canvas, or nullptr

vars == <<scene, primary_ray, max_depth, pc, stack, retval, pixel>>

\* The locals of one activation of trace at its entry.
Frame(ray, depth) ==
    [ray |-> ray, max_depth |-> depth, pc |-> "loop", i |-> 1,
     hit |-> nullptr, min_distance |-> infinity, first_hit |-> nullptr]

Top == stack[Len(stack)]

Pop == SubSeq(stack, 1, Len(stack) - 1)

SetTop(f) == [stack EXCEPT ![Len(stack)] = f]

\* main has made an empty Scene and nothing has been rendered.
Init ==
    /\ scene = [objs |-> <<>>]
    /\ primary_ray = nullptr
    /\ max_depth = 0
    /\ pc = "start"
    /\ stack = <<>>
    /\ retval = nullptr
    /\ pixel = nullptr

\* main fills the scene and makes the renderer with its depth budget; the
\* renderer is called for a pixel: return trace(primary_ray, scene, max_depth);
\* trace takes any Ray: it does not require the unit direction the camera gives.
Call ==
    /\ pc = "start"
    /\ \E w \in Worlds :
         /\ scene' \in { [objs |-> s] : s \in SeqsUpTo(w.objs, MaxObjs) }
         /\ primary_ray' \in w.rays
    /\ max_depth' \in -1..MaxDepth
    /\ pc' = "running"
    /\ stack' = <<Frame(primary_ray', max_depth')>>
    /\ UNCHANGED <<retval, pixel>>

\* One iteration of `for (const auto &obj : scene.objs)`.
TestObject ==
    /\ pc = "running" /\ stack # <<>>
    /\ Top.pc = "loop" /\ Top.i <= Len(scene.objs)
    /\ LET f == Top
           hit == intersect(scene.objs[f.i], f.i, f.ray)
           dist == distance(f.ray.org, hit[1].pos)
           better == hit # nullptr /\ Nearer(dist, f.min_distance)
       IN  stack' = SetTop([f EXCEPT !.i = f.i + 1,
                                     !.hit = hit,
                                     !.first_hit = IF better THEN hit ELSE @,
                                     !.min_distance = IF better THEN dist ELSE @])
    /\ UNCHANGED <<scene, primary_ray, max_depth, pc, retval, pixel>>

\* first_hit == nullptr: return Color(0);
ReturnBackground ==
    /\ pc = "running" /\ stack # <<>>
    /\ Top.pc = "loop" /\ Top.i > Len(scene.objs)
    /\ Top.first_hit = nullptr
    /\ retval' = <<Vector3s(Lit(0))>>
    /\ stack' = Pop
    /\ UNCHANGED <<scene, primary_ray, max_depth, pc, pixel>>

\* first_hit != nullptr: the normal is turned against the ray.
Orient ==
    /\ pc = "running" /\ stack # <<>>
    /\ Top.pc = "loop" /\ Top.i > Len(scene.objs)
    /\ Top.first_hit # nullptr
    /\ LET f == Top
           h == f.first_hit[1]
       IN  stack' = SetTop([f EXCEPT !.pc = "shade",
                                     !.first_hit = <<[h EXCEPT !.norm = Oriented(f.ray, h.norm)]>>])
    /\ UNCHANGED <<scene, primary_ray, max_depth, pc, retval, pixel>>

\* max_depth > 0: trace(reflect_ray, scene, max_depth - 1) is called.
Reflect ==
    /\ pc = "running" /\ stack # <<>>
    /\ Top.pc = "shade"
    /\ Recurses(Top.max_depth)
    /\ LET f == Top
       IN  stack' = Append(SetTop([f EXCEPT !.pc = "call"]),
                           Frame(reflect_ray(f.ray, f.first_hit[1]), NextDepth(f.max_depth)))
    /\ UNCHANGED <<scene, primary_ray, max_depth, pc, retval, pixel>>

\* max_depth <= 0: surface_color is read as the default constructor left it.
ReturnEmission ==
    /\ pc = "running" /\ stack # <<>>
    /\ Top.pc = "shade"
    /\ ~Recurses(Top.max_depth)
    /\ \E surface_color \in Uninitialized :
         retval' = <<Plus(surface_color, scene.objs[Top.first_hit[1].obj].emission_color)>>
    /\ stack' = Pop
    /\ UNCHANGED <<scene, primary_ray, max_depth, pc, pixel>>

\* The recursive call has returned `reflection`.
Combine ==
    /\ pc = "running" /\ stack # <<>>
    /\ Top.pc = "call"
    /\ retval # nullptr
    /\ LET obj == scene.objs[Top.first_hit[1].obj]
           surface_color == Shade(retval[1], obj)
       IN  retval' = <<Plus(surface_color, obj.emission_color)>>
    /\ stack' = Pop
    /\ UNCHANGED <<scene, primary_ray, max_depth, pc, pixel>>

\* The outermost trace has returned to the renderer.
Finish ==
    /\ pc = "running" /\ stack = <<>>
    /\ retval # nullptr
    /\ pixel' = retval
    /\ retval' = nullptr
    /\ pc' = "done"
    /\ UNCHANGED <<scene, primary_ray, max_depth, stack>>

Next ==
    \/ Call
    \/ TestObject
    \/ ReturnBackground
    \/ Orient
    \/ Reflect
    \/ ReturnEmission
    \/ Combine
    \/ Finish

Spec == Init /\ [][Next]_vars

----------------------------------------------------------------------------
(* The inputs stay where the rational model is the code's computation *)

SqrtArgsOf(obj, hit, ray) ==
    { FSub(FMul(obj.radius, obj.radius), l_sin_sqr(obj, ray)),
      sqr_length(Minus(hit.pos, obj.pos)),
      sqr_distance(ray.org, hit.pos) }

\* Every square root taken by the innermost activation is the root of a
\* perfect square, and no length divided by is zero.
SqrtArgsExact ==
    stack # <<>> =>
      \A j \in 1..Len(scene.objs) :
        LET obj == scene.objs[j]
            hit == intersect(obj, j, Top.ray)
        IN  hit # nullptr =>
              /\ \A a \in SqrtArgsOf(obj, hit[1], Top.ray) : IsSquare(a) /\ a[2] > 0
              /\ sqr_length(Minus(hit[1].pos, obj.pos)) # Lit(0)

----------------------------------------------------------------------------
(* Sphere::intersect *)

Zero == Lit(0)

\* The activations that have tested at least one object: f.hit is what
\* scene.objs[f.i - 1]->intersect(f.ray) returned.
Tested == { k \in 1..Len(stack) : stack[k].i > 1 }

LastObj(f) == scene.objs[f.i - 1]

UnitDir(ray) == sqr_length(ray.dir) = Lit(1)

Sqr(a) == FMul(a, a)

\* C7: whenever dot(sphere.pos - ray.org, ray.dir) <= 0, intersect returns no
\* hit, whatever the radius (origin inside the sphere looking away, origin at
\* the centre).
C7_BehindNeverHits ==
    \A k \in Tested :
        LET f == stack[k]
            obj == LastObj(f)
        IN  FLe(dot(Minus(obj.pos, f.ray.org), f.ray.dir), Zero) => f.hit = nullptr

\* The ray starts exactly at the centre of the sphere it was tested against.
C7_Witness ==
    \E k \in Tested :
        /\ LastObj(stack[k]).pos = stack[k].ray.org
        /\ stack[k].hit = nullptr

\* C8: with l_cos > 0, intersect returns a hit iff l_sin_sqr <= radius^2; a
\* tangent ray (l_sin_sqr = radius^2) hits at ray.org + ray.dir * l_cos.
C8_HitIffWithinRadius ==
    \A k \in Tested :
        LET f == stack[k]
            obj == LastObj(f)
            lc == dot(Minus(obj.pos, f.ray.org), f.ray.dir)
            ls == FSub(sqr_length(Minus(obj.pos, f.ray.org)), Sqr(lc))
        IN  FLt(Zero, lc) =>
              /\ f.hit # nullptr <=> FLe(ls, Sqr(obj.radius))
              /\ ls = Sqr(obj.radius) =>
                    /\ f.hit # nullptr
                    /\ f.hit[1].pos = Plus(f.ray.org, Scale(f.ray.dir, lc))

\* A tangent ray was tested and hit.
C8_Witness ==
    \E k \in Tested :
        LET f == stack[k]
            obj == LastObj(f)
        IN  /\ FLt(Zero, l_cos(obj, f.ray))
            /\ l_sin_sqr(obj, f.ray) = Sqr(obj.radius)
            /\ f.hit # nullptr

\* C4: for a unit-direction ray and a sphere of radius > 0 that intersect
\* reports hit, hit.pos = ray.org + ray.dir * (l_cos - sqrt(radius^2 - l_sin_sqr)),
\* it lies on the sphere, it is the nearer of the two points where the ray's
\* line meets the sphere, the normal is (hit.pos - sphere.pos) / radius and
\* hit.obj is the sphere; sphere (0,0,-20) radius 4 and the ray from the origin
\* along (0,0,-1) give hit (0,0,-16), normal (0,0,1), distance 16.
C4_NearPointOnSphere ==
    \A k \in Tested :
        LET f == stack[k]
            obj == LastObj(f)
            lc == dot(Minus(obj.pos, f.ray.org), f.ray.dir)
            ls == FSub(sqr_length(Minus(obj.pos, f.ray.org)), Sqr(lc))
            half == FSqrt(FSub(Sqr(obj.radius), ls))
            near == Plus(f.ray.org, Scale(f.ray.dir, FSub(lc, half)))
            far == Plus(f.ray.org, Scale(f.ray.dir, FAdd(lc, half)))
        IN  (UnitDir(f.ray) /\ FLt(Zero, obj.radius) /\ f.hit # nullptr) =>
              /\ f.hit[1].pos = near
              /\ sqr_length(Minus(f.hit[1].pos, obj.pos)) = Sqr(obj.radius)
              /\ sqr_length(Minus(far, obj.pos)) = Sqr(obj.radius)
              /\ FLe(sqr_distance(f.ray.org, f.hit[1].pos), sqr_distance(f.ray.org, far))
              /\ f.hit[1].norm = DivScalar(Minus(f.hit[1].pos, obj.pos), obj.radius)
              /\ f.hit[1].obj = f.i - 1
              /\ (obj.pos = Point(0, 0, -20) /\ obj.radius = Lit(4)
                    /\ f.ray = Ray(Point(0, 0, 0), Point(0, 0, -1))) =>
                   /\ f.hit[1].pos = Point(0, 0, -16)
                   /\ f.hit[1].norm = Point(0, 0, 1)
                   /\ distance(f.ray.org, f.hit[1].pos) = Lit(16)

\* The sphere at (0,0,-20) of radius 4 was hit from the origin along (0,0,-1).
C4_Witness ==
    \E k \in Tested :
        /\ LastObj(stack[k]).pos = Point(0, 0, -20)
        /\ LastObj(stack[k]).radius = Lit(4)
        /\ stack[k].ray = Ray(Point(0, 0, 0), Point(0, 0, -1))
        /\ stack[k].hit # nullptr
        /\ stack[k].hit[1].pos = Point(0, 0, -16)

\* C9: every hit intersect returns for a unit-direction ray and a sphere of
\* radius > 0 lies on the forward half of the ray: the distance
\* l_cos - sqrt(radius^2 - l_sin_sqr) is >= 0, hit.pos is not behind ray.org,
\* and the Euclidean distance from ray.org to hit.pos equals that distance.
C9_HitInFront ==
    \A k \in Tested :
        LET f == stack[k]
            obj == LastObj(f)
            lc == dot(Minus(obj.pos, f.ray.org), f.ray.dir)
            ls == FSub(sqr_length(Minus(obj.pos, f.ray.org)), Sqr(lc))
            t == FSub(lc, FSqrt(FSub(Sqr(obj.radius), ls)))
        IN  (UnitDir(f.ray) /\ FLt(Zero, obj.radius) /\ f.hit # nullptr) =>
              /\ FLe(Zero, t)
              /\ FLe(Zero, dot(Minus(f.hit[1].pos, f.ray.org), f.ray.dir))
              /\ distance(f.ray.org, f.hit[1].pos) = t

----------------------------------------------------------------------------
(* trace *)

\* What each object's intersect returns for the ray.
Hits(ray) == [j \in 1..Len(scene.objs) |-> intersect(scene.objs[j], j, ray)]

\* The Euclidean distance from ray.org to each hit.
HitDistances(ray, hits) ==
    [j \in DOMAIN hits |->
        IF hits[j] = nullptr THEN infinity ELSE distance(ray.org, hits[j][1].pos)]

\* The lowest-index object among those hit at the minimum distance, 0 if none.
NearestOf(hits, dists) ==
    LET H == { j \in DOMAIN hits : hits[j] # nullptr }
    IN  IF H = {} THEN 0
        ELSE CHOOSE j \in H :
               \A m \in H : /\ FLe(dists[j], dists[m])
                            /\ dists[m] = dists[j] => j <= m

NearestObj(ray) == NearestOf(Hits(ray), HitDistances(ray, Hits(ray)))

\* The activations whose loop over scene.objs is over.
Scanned == { k \in 1..Len(stack) : stack[k].i > Len(scene.objs) }

\* C3: after every object was tested in insertion order, first_hit is none
\* iff no object was hit; otherwise it is the hit of the lowest-index object
\* among those at the minimum Euclidean distance from ray.org.
C3_NearestFirstWins ==
    \A k \in Scanned :
        LET f == stack[k]
            hits == Hits(f.ray)
            dists == HitDistances(f.ray, hits)
            best == NearestOf(hits, dists)
        IN  /\ f.first_hit = nullptr <=> \A j \in DOMAIN hits : hits[j] = nullptr
            /\ f.first_hit # nullptr =>
                 /\ f.first_hit[1].obj = best
                 /\ f.first_hit[1].pos = hits[best][1].pos
                 /\ f.min_distance = dists[best]

\* Two objects were hit at the same distance and the earlier one was kept.
C3_Witness ==
    \E k \in Scanned :
        LET f == stack[k]
            hits == Hits(f.ray)
            dists == HitDistances(f.ray, hits)
        IN  /\ f.first_hit # nullptr
            /\ \E m \in DOMAIN hits :
                 /\ m > f.first_hit[1].obj
                 /\ hits[m] # nullptr
                 /\ dists[m] = f.min_distance

\* The activations past the orientation step.
Shaded == { k \in 1..Len(stack) : stack[k].pc \in {"shade", "call"} }

\* The normal intersect computed for the hit the activation resolved.
RawNorm(f) ==
    intersect(scene.objs[f.first_hit[1].obj], f.first_hit[1].obj, f.ray)[1].norm

\* C5: after the orientation step dot(ray.dir, hit.norm) <= 0: the normal is
\* negated exactly when dot(ray.dir, hit.norm) > 0, left unchanged otherwise,
\* and the reflection ray is built from the corrected normal.
C5_NormalFacesRay ==
    \A k \in Shaded :
        LET f == stack[k]
            n == f.first_hit[1].norm
        IN  /\ FLe(dot(f.ray.dir, n), Zero)
            /\ n = IF FLt(Zero, dot(f.ray.dir, RawNorm(f))) THEN Negate(RawNorm(f))
                   ELSE RawNorm(f)
            /\ k < Len(stack) =>
                 stack[k + 1].ray.dir =
                   Minus(f.ray.dir, Scale(n, FMul(Lit(2), dot(f.ray.dir, n))))

\* A normal was negated and the reflection ray was cast.
C5_Witness ==
    \E k \in Shaded :
        /\ k < Len(stack)
        /\ FLt(Zero, dot(stack[k].ray.dir, RawNorm(stack[k])))
        /\ stack[k].first_hit[1].norm = Negate(RawNorm(stack[k]))

\* The activation k called k + 1 as the code builds the recursive call.
IsReflectionOf(k) ==
    LET f == stack[k]
        n == f.first_hit[1].norm
    IN  /\ f.pc = "call"
        /\ f.max_depth > 0
        /\ stack[k + 1].max_depth = f.max_depth - 1
        /\ stack[k + 1].ray.org = f.first_hit[1].pos
        /\ stack[k + 1].ray.dir =
             Minus(f.ray.dir, Scale(n, FMul(Lit(2), dot(f.ray.dir, n))))

\* C6: a trace call with budget > 0 that hits returns
\* R * obj.surface_color + (0.3,0.3,0.3) + obj.emission_color, R being what
\* trace returned for the reflection ray with budget - 1; a non-emissive black
\* sphere whose reflection escapes gives (0.3,0.3,0.3) at budget 1.
C6_ShadedColor ==
    /\ [](\A k \in 1..(Len(stack) - 1) : IsReflectionOf(k))
    /\ [][ (stack # <<>> /\ Top.pc = "call" /\ stack' = Pop) =>
             LET obj == scene.objs[Top.first_hit[1].obj]
                 R == retval[1]
             IN  /\ Top.max_depth > 0
                 /\ retval' = <<Plus(Plus(Times(R, obj.surface_color), Vector3s(Float(3, 10))),
                                     obj.emission_color)>>
                 /\ (Top.max_depth = 1 /\ R = Vector3s(Zero)
                       /\ obj.surface_color = Vector3s(Zero)
                       /\ obj.emission_color = Vector3s(Zero)) =>
                      retval' = <<Vector3s(Float(3, 10))>>
          ]_vars

\* The single black, non-emissive sphere rendered with budget 1.
C6_Witness ==
    /\ pc = "done"
    /\ max_depth = 1
    /\ Len(scene.objs) = 1
    /\ scene.objs[1].surface_color = Vector3s(Zero)
    /\ scene.objs[1].emission_color = Vector3s(Zero)
    /\ pixel = <<Vector3s(Float(3, 10))>>

\* C1: trace(ray, scene, 0) makes no recursive call and returns exactly the
\* nearest hit object's emission_color when an object is hit, exactly (0,0,0)
\* when none is.
C1_DepthZeroColor ==
    /\ (max_depth = 0 => Len(stack) <= 1)
    /\ (pc = "done" /\ max_depth = 0) =>
         pixel = <<IF NearestObj(primary_ray) = 0 THEN Vector3s(Zero)
                   ELSE scene.objs[NearestObj(primary_ray)].emission_color>>

\* The steps an activation entered with budget d takes at most, its
\* recursive calls included, in a scene of n objects.
RECURSIVE Work(_, _)
Work(d, n) == n + 2 + (IF d > 0 THEN 1 + Work(d - 1, n) ELSE 0)

\* The steps the activation f has left at most; an activation waiting for
\* its recursive call has its own last step left.
Remaining(f) ==
    LET n == Len(scene.objs)
    IN  CASE f.pc = "loop"  -> Work(f.max_depth, n) - (IF f.i > n THEN n ELSE f.i - 1)
          [] f.pc = "shade" -> IF f.max_depth > 0 THEN 2 + Work(f.max_depth - 1, n) ELSE 1
          [] f.pc = "call"  -> 1

RECURSIVE SumRemaining(_)
SumRemaining(k) == IF k = 0 THEN 0 ELSE Remaining(stack[k]) + SumRemaining(k - 1)

\* The steps the render has left at most.
Rank ==
    CASE pc = "start"   -> 2 + Work(MaxDepth, MaxObjs)
      [] pc = "running" -> 1 + SumRemaining(Len(stack))
      [] pc = "done"    -> 0

\* C2: each invocation makes at most one recursive call, only with budget > 0
\* and a hit, passing budget - 1: the nested recursive calls never exceed
\* max(d, 0), none for d <= 0, and trace returns: every step uses up the
\* bounded number of steps left and a render that is not over can step.
C2_Terminates ==
    /\ [](/\ Len(stack) <= 1 + (IF max_depth > 0 THEN max_depth ELSE 0)
          /\ \A k \in 1..(Len(stack) - 1) :
               /\ stack[k].pc = "call"
               /\ stack[k].max_depth > 0
               /\ stack[k].first_hit # nullptr
               /\ stack[k + 1].max_depth = stack[k].max_depth - 1)
    /\ [](pc = "running" =>
            \/ stack = <<>> /\ retval # nullptr
            \/ stack # <<>> /\ Top.pc \in {"loop", "shade"} /\ retval = nullptr
            \/ stack # <<>> /\ Top.pc = "call" /\ retval # nullptr)
    /\ [][Rank' < Rank /\ Rank' >= 0]_vars

\* The recursion is as deep as the budget allows.
C2_Witness ==
    /\ max_depth > 0
    /\ Len(stack) = 1 + max_depth

\* The ray of activation k has unit direction and starts outside the sphere
\* the activation resolved.
OutsideHitSphere(k) ==
    LET f == stack[k]
        S == scene.objs[f.first_hit[1].obj]
    IN  /\ UnitDir(f.ray)
        /\ FLt(Sqr(S.radius), sqr_distance(S.pos, f.ray.org))

\* C10: the reflection ray of a unit-direction ray that starts outside sphere
\* S and hits it has dot(S.pos - hit.pos, reflect_dir) <= 0, so S.intersect
\* returns no hit for it and the recursive trace resolves another object or
\* the background.
C10_NoSelfHit ==
    \A k \in 1..(Len(stack) - 1) :
        LET f == stack[k]
            c == stack[k + 1]
            this == f.first_hit[1].obj
            S == scene.objs[this]
        IN  OutsideHitSphere(k) =>
              /\ FLe(dot(Minus(S.pos, f.first_hit[1].pos), c.ray.dir), Zero)
              /\ c.i = this + 1 => c.hit = nullptr
              /\ c.first_hit # nullptr => c.first_hit[1].obj # this

\* The recursive call tested the sphere an oblique reflection ray left.
C10_Witness ==
    \E k \in 1..(Len(stack) - 1) :
        /\ OutsideHitSphere(k)
        /\ stack[k + 1].i = stack[k].first_hit[1].obj + 1
        /\ stack[k + 1].hit = nullptr
        /\ FLt(dot(stack[k].ray.dir, stack[k].first_hit[1].norm), Zero)
        /\ stack[k + 1].ray.dir # Negate(stack[k].ray.dir)

====
